---------------------------- MODULE Spec2Model ----------------------------
(***************************************************************************)
(* Model of the code-file version-control endpoints of the FTC dashboard   *)
(* server (the "/api/code/..." handlers and the code_files / code_commits   *)
(* tables).                                                                 *)
(*                                                                          *)
(* Every handler is synchronous (better-sqlite3 statements, no await), so   *)
(* one handler invocation is one atomic action.  A request that is answered *)
(* with an error before any statement has changed the store leaves every    *)
(* variable unchanged; its answer is given by the handler's status          *)
(* operator.  The GET handlers and download change nothing and are          *)
(* operators on the store: the response they would send in that state.      *)
(*                                                                          *)
(* Spec drives the endpoints with every request body of the input sets.    *)
(* SpecNotify adds the WebSocket observers that broadcast() writes to, and  *)
(* SpecList lets one team keep files at two paths; both drive the same      *)
(* handler actions with one request body each.  SpecSuccessful keeps the    *)
(* requests that are served without an error.  SpecSteps runs publish and   *)
(* revert one statement at a time.  SpecEditor is one CodeView component    *)
(* (src/components/CodeView.tsx) and the server that serves its requests.   *)
(*                                                                          *)
(* created_at / updated_at are ISO-8601 strings produced by                 *)
(* new Date().toISOString(); SQLite compares them as TEXT, which for this   *)
(* fixed-width format is the order of the millisecond clock.  They are      *)
(* modelled by the millisecond value itself.                                *)
(***************************************************************************)
EXTENDS Integers, Sequences, FiniteSets, TLC

(* ------------------------------ bounds --------------------------------- *)
MaxClock == 1
MaxCommits == 3
MaxFiles == 2
MaxEdits == 2

(* ------------------------------ inputs --------------------------------- *)
\* 0 and "" are the JavaScript-falsy values a request may carry.
Teams == {1, 2}
Authors == {7}
Names == {"X.java"}
Paths == {"p"}
Languages == {"java"}
Contents == {"", "A"}
Messages == {"", "msg"}
BranchNames == {"drafts", "main", "dev"}
\* Math.random().toString(36).substr(2, 9), abstracted to one value: the
\* timestamp is then the only part of a hash that tells two hashes apart.
RandomSuffixes == {"r1"}
Texts == {"A", "AB"}
NoAuthor == 0
\* The WebSocket connections a browser may hold to the server.
Observers == {"o1", "o2"}
\* Request bodies of revert: target branch and author_id (absent: NoAuthor).
RevertRequests == {<<"main", 7>>, <<"drafts", NoAuthor>>, <<"dev", 7>>}

VARIABLES
    code_files,      \* rows of table code_files
    code_commits,    \* rows of table code_commits
    fileSeq,         \* sqlite_sequence of code_files (AUTOINCREMENT)
    commitSeq,       \* sqlite_sequence of code_commits (AUTOINCREMENT)
    clock,           \* the server's millisecond clock (Date.now())
    foreign_keys,    \* whether the SQLite build enforces FOREIGN KEY clauses
    tieBreak,        \* order in which the SQLite build returns equal sort keys
    last,            \* the last request served and its response
    clients,         \* per observer: its socket's place in `clients`
    inbox,           \* per observer: the payloads handed to its socket
    handler,         \* the request handler in progress and its locals
    editor,          \* the state of the CodeView component and its timer
    client           \* the component's requests in flight and what it sent

vars == <<code_files, code_commits, fileSeq, commitSeq, clock, foreign_keys,
          tieBreak, last, clients, inbox, handler, editor, client>>

(* ------------------------------ store ---------------------------------- *)
FileRow(id, team, name, path, lang, by, at) ==
    [id |-> id, team_id |-> team, file_name |-> name, file_path |-> path,
     language |-> lang, created_by |-> by, created_at |-> at, updated_at |-> at]

CommitRow(id, team, file, branch, author, message, content, hash, at) ==
    [id |-> id, team_id |-> team, file_id |-> file, branch |-> branch,
     author_id |-> author, message |-> message, content |-> content,
     hash |-> hash, created_at |-> at]

\* SELECT * FROM code_files WHERE id = ?
SelectFile(fileId) == {f \in code_files : f.id = fileId}

\* SELECT * FROM code_commits WHERE id = ?
SelectCommit(commitId) == {c \in code_commits : c.id = commitId}

\* ... FROM code_commits WHERE file_id = ?
CommitsOfFile(fileId) == {c \in code_commits : c.file_id = fileId}

\* ... FROM code_commits WHERE file_id = ? AND branch = ?
CommitsOf(fileId, branch) ==
    {c \in code_commits : c.file_id = fileId /\ c.branch = branch}

\* A variant of ComesFirst for ORDER BY <key> ASC.
ComesFirstAscending(k1, id1, k2, id2) ==
    \/ k1 < k2
    \/ k1 = k2 /\ (IF tieBreak = "rowid" THEN id1 < id2 ELSE id1 > id2)

\* ORDER BY <key> DESC.  Rows with equal keys come out in an order SQL leaves
\* open; a given build returns them by ascending or by descending rowid.
ComesFirst(k1, id1, k2, id2) ==
    \/ k1 > k2
    \/ k1 = k2 /\ (IF tieBreak = "rowid" THEN id1 < id2 ELSE id1 > id2)

RECURSIVE OrderByCreatedAtDesc(_)
OrderByCreatedAtDesc(rows) ==
    IF rows = {} THEN <<>>
    ELSE LET h == CHOOSE c \in rows : \A d \in rows \ {c} :
                      ComesFirst(c.created_at, c.id, d.created_at, d.id)
         IN <<h>> \o OrderByCreatedAtDesc(rows \ {h})

RECURSIVE OrderByUpdatedAtDesc(_)
OrderByUpdatedAtDesc(rows) ==
    IF rows = {} THEN <<>>
    ELSE LET h == CHOOSE f \in rows : \A g \in rows \ {f} :
                      ComesFirst(f.updated_at, f.id, g.updated_at, g.id)
         IN <<h>> \o OrderByUpdatedAtDesc(rows \ {h})

\* SELECT content ... WHERE file_id = ? AND branch = ?
\* ORDER BY created_at DESC LIMIT 1   (the empty sequence when no row)
LatestCommit(fileId, branch) ==
    LET rows == OrderByCreatedAtDesc(CommitsOf(fileId, branch))
    IN IF rows = <<>> THEN <<>> ELSE <<rows[1]>>

\* draftCommit?.content || ''
ContentOrEmpty(row) == IF row = <<>> THEN "" ELSE row[1].content

\* A variant of UpdateUpdatedAt for a handler without the UPDATE statement.
KeepUpdatedAt(rows, fileId, now) == rows

\* UPDATE code_files SET updated_at = ? WHERE id = ?
UpdateUpdatedAt(rows, fileId, now) ==
    {IF f.id = fileId THEN [f EXCEPT !.updated_at = now] ELSE f : f \in rows}

Ids(seq) == [i \in 1..Len(seq) |-> seq[i].id]

\* A variant of InsertCommit that keeps one row per (file, branch).
UpsertCommit(rows, row) ==
    {c \in rows : ~(c.file_id = row.file_id /\ c.branch = row.branch)} \cup {row}

\* A variant of InsertCommit that skips a row whose content is already on
\* its (file, branch).
InsertCommitUnlessSame(rows, row) ==
    IF \E c \in rows : c.file_id = row.file_id /\ c.branch = row.branch
                        /\ c.content = row.content
    THEN rows ELSE rows \cup {row}

\* A variant of InsertCommit that skips the commit createFile writes.
InsertCommitButInitial(rows, row) ==
    IF row.message.kind = "Created" THEN rows ELSE rows \cup {row}

\* A variant of InsertCommit that files every row under main.
InsertCommitOnMain(rows, row) == rows \cup {[row EXCEPT !.branch = "main"]}

\* INSERT INTO code_commits (...) VALUES (...)
InsertCommit(rows, row) == rows \cup {row}

(* ------------------------- hashes and messages ------------------------- *)
NoHash == [kind |-> "none", time |-> 0, rnd |-> ""]

\* `draft_${Date.now()}`
DraftHash(now) == [kind |-> "draft", time |-> now, rnd |-> ""]

\* `${Date.now()}_${Math.random().toString(36).substr(2, 9)}`
RandomHash(now, rnd) == [kind |-> "random", time |-> now, rnd |-> rnd]

Msg(kind, text, hash) == [kind |-> kind, text |-> text, hash |-> hash]

\* The text of a message column.
MessageText(m) == IF m.kind = "user" THEN m.text ELSE m.kind

\* `Created ${file_name}`
CreatedMessage(name) == Msg("Created", name, NoHash)

AutoSaveMessage == Msg("Auto-save draft", "", NoHash)

\* message || 'Commit to main'
CommitMessage(message) ==
    IF message = "" THEN Msg("Commit to main", "", NoHash)
    ELSE Msg("user", message, NoHash)

\* `Revert to commit ${commit.hash}`
RevertMessage(hash) == Msg("Revert to commit", "", hash)

(* --------------------------- WebSocket logic ---------------------------- *)
\* The argument of broadcast(); NoEvent when a handler does not call it.
NoEvent ==
    [type |-> "none", file_id |-> 0, team_id |-> 0, message |-> "",
     branch |-> "", hash |-> NoHash, timestamp |-> 0]

\* A variant of CodeCommitEvent that leaves the hash out of the payload.
CodeCommitEventWithoutHash(fileId, teamId, message, hash, now) ==
    [NoEvent EXCEPT !.type = "code_commit", !.file_id = fileId,
                    !.team_id = teamId,
                    !.message = IF message = "" THEN "New commit" ELSE message,
                    !.hash = NoHash, !.timestamp = now]

\* { type: 'code_commit', file_id, team_id, message: message || 'New commit',
\*   hash, timestamp: now }
CodeCommitEvent(fileId, teamId, message, hash, now) ==
    [NoEvent EXCEPT !.type = "code_commit", !.file_id = fileId,
                    !.team_id = teamId,
                    !.message = IF message = "" THEN "New commit" ELSE message,
                    !.hash = hash, !.timestamp = now]

\* { type: 'code_revert', file_id, team_id, branch, hash, timestamp: now }
CodeRevertEvent(fileId, teamId, branch, hash, now) ==
    [NoEvent EXCEPT !.type = "code_revert", !.file_id = fileId,
                    !.team_id = teamId, !.branch = branch,
                    !.hash = hash, !.timestamp = now]

\* A variant of Broadcast without the readyState test.
BroadcastToAll(emission, data) ==
    [o \in Observers |->
        IF clients[o] # "absent"
        THEN Append(inbox[o], [emission |-> emission, data |-> data])
        ELSE inbox[o]]

\* clients.forEach(client => { if (client.readyState === WebSocket.OPEN)
\*                                client.send(payload) })
\* `emission` numbers the calls of broadcast (it is not part of the payload).
Broadcast(emission, data) ==
    [o \in Observers |->
        IF clients[o] = "open"
        THEN Append(inbox[o], [emission |-> emission, data |-> data])
        ELSE inbox[o]]

(* ------------------------- handlers in progress ------------------------- *)
\* No handler is running: the event loop is between callbacks.
NoHandler ==
    [op |-> "none", pos |-> 0, fileId |-> 0, team |-> 0, commitId |-> 0,
     branch |-> "", author |-> 0, message |-> "", stored |-> Msg("", "", NoHash),
     content |-> "", hash |-> NoHash, now |-> 0, newId |-> 0, event |-> NoEvent]

(* ------------------------------ the editor ------------------------------ *)
\* useState(...): the component's state before a file is selected.
NoTimer == [armed |-> FALSE, code |-> ""]
NoContent == [loaded |-> FALSE, drafts |-> "", main |-> ""]

NoEditor ==
    [selectedFile |-> 0, currentBranch |-> "drafts", code |-> "",
     fileContentObj |-> NoContent, unsavedChanges |-> FALSE,
     autoSaveStatus |-> "saved", showCommitModal |-> FALSE, loading |-> FALSE,
     timer |-> NoTimer]

\* The requests of the component that are in flight, and what the component
\* has sent and received so far.
NoClient ==
    [requests |-> {}, edits |-> 0, pendingEdit |-> FALSE,
     synced |-> "", confirmed |-> "", published |-> FALSE]

ui == <<editor, client>>

(* ----------------------------- responses ------------------------------- *)
\* The last request that changed the store, with the response it got.
NoResponse ==
    [op |-> "none", status |-> 0, team |-> 0, fileId |-> 0, commitId |-> 0,
     branch |-> "", content |-> "", message |-> "", hash |-> NoHash, newId |-> 0,
     event |-> NoEvent]

Response(op, status) == [NoResponse EXCEPT !.op = op, !.status = status]

Init ==
    /\ code_files = {}
    /\ code_commits = {}
    /\ fileSeq = 0
    /\ commitSeq = 0
    /\ clock = 0
    /\ foreign_keys \in BOOLEAN
    /\ tieBreak \in {"rowid", "reverse"}
    /\ last = NoResponse
    /\ clients = [o \in Observers |-> "absent"]
    /\ inbox = [o \in Observers |-> <<>>]
    /\ handler = NoHandler
    /\ editor = NoEditor
    /\ client = NoClient

build == <<foreign_keys, tieBreak>>
sockets == <<clients, inbox>>

\* Time passes between requests (never inside one: a handler reads the clock
\* once and runs to completion).
Tick ==
    /\ clock < MaxClock
    /\ clock' = clock + 1
    /\ UNCHANGED <<code_files, code_commits, fileSeq, commitSeq, build, last, sockets, handler, ui>>

(* ------------------------- POST /api/code/files ------------------------ *)
\* The rows INSERT OR REPLACE deletes to satisfy UNIQUE(team_id, file_path).
Conflicting(team, path) ==
    {f \in code_files : f.team_id = team /\ f.file_path = path}

\* Deleting a row that commits still reference violates
\* FOREIGN KEY(file_id) REFERENCES code_files(id) when the build enforces it.
ReplaceViolatesForeignKey(team, path) ==
    /\ foreign_keys
    /\ \E f \in Conflicting(team, path) : CommitsOfFile(f.id) # {}

\* A variant of CommitsKeptByReplace for a schema with ON DELETE CASCADE.
CommitsCascadedByReplace(team, path) ==
    {c \in code_commits : \A f \in Conflicting(team, path) : c.file_id # f.id}

\* FOREIGN KEY(file_id) REFERENCES code_files(id) names no ON DELETE action:
\* the commits of a row that INSERT OR REPLACE deletes are left in place.
CommitsKeptByReplace(team, path) == code_commits

\* A variant of MissingRequired that does not require author_id.
MissingRequiredButAuthor(team, name, path, author) ==
    team = 0 \/ name = "" \/ path = ""

\* if (!team_id || !file_name || !file_path || !author_id)
MissingRequired(team, name, path, author) ==
    team = 0 \/ name = "" \/ path = "" \/ author = NoAuthor

\* The status the handler answers when both statements run without a store
\* error.
CreateFileStatus(team, name, path, author) ==
    IF MissingRequired(team, name, path, author) THEN 400
    ELSE IF ReplaceViolatesForeignKey(team, path) THEN 500
    ELSE 200

CreateFileRejected(team, name, path, author) ==
    /\ CreateFileStatus(team, name, path, author) = 400
    /\ UNCHANGED vars

\* The INSERT OR REPLACE statement throws; the catch block answers 500.
CreateFileReplaceFails(team, name, path, author) ==
    /\ CreateFileStatus(team, name, path, author) = 500
    /\ UNCHANGED vars

CreateFileOk(team, name, path, lang, content, author) ==
    /\ CreateFileStatus(team, name, path, author) = 200
    /\ fileSeq < MaxFiles /\ commitSeq < MaxCommits
    /\ LET now == clock
           fileId == fileSeq + 1
           commitId == commitSeq + 1
       IN /\ code_files' = (code_files \ Conflicting(team, path)) \cup
                             {FileRow(fileId, team, name, path, lang, author, now)}
          /\ fileSeq' = fileId
          /\ code_commits' = InsertCommit(CommitsKeptByReplace(team, path),
                 CommitRow(commitId, team, fileId, "drafts", author,
                           CreatedMessage(name), content, DraftHash(now), now))
          /\ commitSeq' = commitId
          /\ last' = [Response("createFile", 200) EXCEPT
                        !.team = team, !.fileId = fileId,
                        !.content = content, !.newId = commitId]
    /\ UNCHANGED <<clock, build, sockets, handler, ui>>

\* The registry row is written, then the INSERT INTO code_commits throws (a
\* store error, or a content value the driver cannot bind); the two
\* statements are not in a transaction, so the row stays.  The handler
\* answers 500.
CreateFileCommitInsertFails(team, name, path, lang, author) ==
    /\ CreateFileStatus(team, name, path, author) = 200
    /\ fileSeq < MaxFiles
    /\ LET now == clock
           fileId == fileSeq + 1
       IN /\ code_files' = (code_files \ Conflicting(team, path)) \cup
                             {FileRow(fileId, team, name, path, lang, author, now)}
          /\ fileSeq' = fileId
          /\ last' = [Response("createFile", 500) EXCEPT
                        !.team = team, !.fileId = fileId]
          /\ code_commits' = CommitsKeptByReplace(team, path)
    /\ UNCHANGED <<commitSeq, clock, build, sockets, handler, ui>>

\* Request bodies with one required field missing (0 and "" are falsy).
IncompleteRequests ==
    LET team == CHOOSE t \in Teams : TRUE
        name == CHOOSE n \in Names : TRUE
        path == CHOOSE p \in Paths : TRUE
        author == CHOOSE a \in Authors : TRUE
    IN {<<0, name, path, author>>, <<team, "", path, author>>,
        <<team, name, "", author>>, <<team, name, path, NoAuthor>>}

CreateFile ==
    \/ \E r \in IncompleteRequests : CreateFileRejected(r[1], r[2], r[3], r[4])
    \/ \E team \in Teams, name \in Names, path \in Paths, author \in Authors :
          CreateFileReplaceFails(team, name, path, author)
    \/ \E team \in Teams, name \in Names, path \in Paths, lang \in Languages,
          content \in Contents, author \in Authors :
          CreateFileOk(team, name, path, lang, content, author)
    \/ \E team \in Teams, name \in Names, path \in Paths, lang \in Languages,
          author \in Authors :
          CreateFileCommitInsertFails(team, name, path, lang, author)

(* -------------------- POST /api/code/files/:fileId/draft ---------------- *)
NullTeam == 0

\* (SELECT team_id FROM code_files WHERE id = ?)  -- NULL when no such row
TeamOfFile(fileId) ==
    IF SelectFile(fileId) = {} THEN NullTeam
    ELSE (CHOOSE f \in SelectFile(fileId) : TRUE).team_id

\* The INSERT throws when the build enforces the foreign key and the file row
\* does not exist; the catch block answers 500.
SaveDraftStatus(fileId) ==
    IF foreign_keys /\ SelectFile(fileId) = {} THEN 500 ELSE 200

SaveDraftFails(fileId) ==
    /\ SaveDraftStatus(fileId) = 500
    /\ UNCHANGED vars

SaveDraftOk(fileId, content, author) ==
    /\ SaveDraftStatus(fileId) = 200
    /\ commitSeq < MaxCommits
    /\ LET now == clock
           commitId == commitSeq + 1
       IN /\ code_commits' = InsertCommit(code_commits,
                 CommitRow(commitId, TeamOfFile(fileId), fileId, "drafts", author,
                           AutoSaveMessage, content, DraftHash(now), now))
          /\ commitSeq' = commitId
          /\ code_files' = UpdateUpdatedAt(code_files, fileId, now)
          /\ last' = [Response("saveDraft", 200) EXCEPT
                        !.fileId = fileId, !.content = content, !.newId = commitId]
    /\ UNCHANGED <<fileSeq, clock, build, sockets, handler, ui>>

SaveDraft ==
    \/ \E fileId \in 1..MaxFiles : SaveDraftFails(fileId)
    \/ \E fileId \in 1..MaxFiles, content \in Contents, author \in Authors :
          SaveDraftOk(fileId, content, author)

(* ------------------- POST /api/code/files/:fileId/commit ---------------- *)
\* A variant of PublishStatus that refuses a file without a draft.
PublishStatusNeedsDraft(fileId) ==
    IF SelectFile(fileId) = {} \/ CommitsOf(fileId, "drafts") = {} THEN 404 ELSE 200

\* if (!file) return res.status(404)
PublishStatus(fileId) == IF SelectFile(fileId) = {} THEN 404 ELSE 200

PublishNotFound(fileId) ==
    /\ PublishStatus(fileId) = 404
    /\ UNCHANGED vars

PublishOk(fileId, message, author, rnd) ==
    /\ PublishStatus(fileId) = 200
    /\ commitSeq < MaxCommits
    /\ LET file == CHOOSE f \in SelectFile(fileId) : TRUE
           draft == LatestCommit(fileId, "drafts")
           now == clock
           hash == RandomHash(now, rnd)
           commitId == commitSeq + 1
       IN /\ code_commits' = InsertCommit(code_commits,
                 CommitRow(commitId, file.team_id, fileId, "main", author,
                           CommitMessage(message), ContentOrEmpty(draft), hash, now))
          /\ commitSeq' = commitId
          /\ code_files' = UpdateUpdatedAt(code_files, fileId, now)
          /\ inbox' = Broadcast(commitId,
                 CodeCommitEvent(fileId, file.team_id, message, hash, now))
          /\ last' = [Response("publish", 200) EXCEPT
                        !.fileId = fileId, !.message = message, !.hash = hash,
                        !.newId = commitId,
                        !.event = CodeCommitEvent(fileId, file.team_id, message,
                                                  hash, now)]
    /\ UNCHANGED <<fileSeq, clock, build, clients, handler, ui>>

Publish ==
    \/ \E fileId \in 1..MaxFiles : PublishNotFound(fileId)
    \/ \E fileId \in 1..MaxFiles, message \in Messages, author \in Authors,
          rnd \in RandomSuffixes :
          PublishOk(fileId, message, author, rnd)

(* ----------------- POST /api/code/commits/:commitId/revert -------------- *)
\* A variant of RevertStatus without the lookup of the owning file.
RevertStatusOfCommitOnly(commitId) ==
    IF SelectCommit(commitId) = {} THEN 404 ELSE 200

\* if (!commit) return res.status(404) ... if (!file) return res.status(404)
RevertStatus(commitId) ==
    IF SelectCommit(commitId) = {} THEN 404
    ELSE IF \E c \in SelectCommit(commitId) : SelectFile(c.file_id) = {} THEN 404
    ELSE 200

RevertNotFound(commitId) ==
    /\ RevertStatus(commitId) = 404
    /\ UNCHANGED vars

RevertOk(commitId, branch, author, rnd) ==
    /\ RevertStatus(commitId) = 200
    /\ commitSeq < MaxCommits
    /\ LET commit == CHOOSE c \in SelectCommit(commitId) : TRUE
           file == CHOOSE f \in SelectFile(commit.file_id) : TRUE
           now == clock
           hash == RandomHash(now, rnd)
           newId == commitSeq + 1
       IN /\ code_commits' = InsertCommit(code_commits,
                 CommitRow(newId, file.team_id, file.id, branch, author,
                           RevertMessage(commit.hash), commit.content, hash, now))
          /\ commitSeq' = newId
          /\ code_files' = UpdateUpdatedAt(code_files, file.id, now)
          /\ inbox' = Broadcast(newId,
                 CodeRevertEvent(file.id, file.team_id, branch, hash, now))
          /\ last' = [Response("revert", 200) EXCEPT
                        !.fileId = file.id, !.commitId = commitId,
                        !.branch = branch, !.hash = hash, !.newId = newId,
                        !.event = CodeRevertEvent(file.id, file.team_id, branch,
                                                  hash, now)]
    /\ UNCHANGED <<fileSeq, clock, build, clients, handler, ui>>

Revert ==
    \/ \E commitId \in 1..MaxCommits : RevertNotFound(commitId)
    \/ \E commitId \in 1..MaxCommits, r \in RevertRequests, rnd \in RandomSuffixes :
          RevertOk(commitId, r[1], r[2], rnd)

(* -------------------- DELETE /api/code/files/:fileId -------------------- *)
\* A variant of DeleteFileOf without the DELETE FROM code_commits statement.
DeleteFileRowOnly(fileId) ==
    IF SelectFile(fileId) = {}
    THEN UNCHANGED vars
    ELSE /\ code_files' = code_files \ SelectFile(fileId)
         /\ last' = [Response("deleteFile", 200) EXCEPT !.fileId = fileId]
         /\ UNCHANGED <<code_commits, fileSeq, commitSeq, clock, build, sockets, handler, ui>>

\* Both DELETE statements always run and the answer is always success; when
\* neither matches a row nothing changes.
DeleteFileOf(fileId) ==
    IF CommitsOfFile(fileId) = {} /\ SelectFile(fileId) = {}
    THEN UNCHANGED vars
    ELSE /\ code_commits' = code_commits \ CommitsOfFile(fileId)
         /\ code_files' = code_files \ SelectFile(fileId)
         /\ last' = [Response("deleteFile", 200) EXCEPT !.fileId = fileId]
         /\ UNCHANGED <<fileSeq, commitSeq, clock, build, sockets, handler, ui>>

DeleteFile == \E fileId \in 1..MaxFiles : DeleteFileOf(fileId)

(* ------------------------------- reads ---------------------------------- *)
\* GET /api/code/files/:teamId -- the ids of the rows returned, in order
ListFiles(team) ==
    Ids(OrderByUpdatedAtDesc({f \in code_files : f.team_id = team}))

\* GET /api/code/files/:fileId/content
GetContentBundle(fileId) ==
    IF SelectFile(fileId) = {}
    THEN [status |-> 404, drafts |-> "", main |-> "", commits |-> <<>>]
    ELSE [status |-> 200,
          drafts |-> ContentOrEmpty(LatestCommit(fileId, "drafts")),
          main |-> ContentOrEmpty(LatestCommit(fileId, "main")),
          commits |-> OrderByCreatedAtDesc(CommitsOfFile(fileId))]

\* (req.query.branch as string) || 'main'    /    const { branch = 'main' }
BranchOrMain(branch) == IF branch = "" THEN "main" ELSE branch

\* GET /api/code/files/:fileId/history
GetHistory(fileId, branch) ==
    OrderByCreatedAtDesc(CommitsOf(fileId, BranchOrMain(branch)))

\* A variant of Download that substitutes empty content, as publish does.
DownloadOrEmpty(fileId, branch) ==
    LET commit == LatestCommit(fileId, BranchOrMain(branch))
    IN IF SelectFile(fileId) = {}
       THEN [status |-> 404, content |-> "", filename |-> ""]
       ELSE [status |-> 200, content |-> ContentOrEmpty(commit),
             filename |-> (CHOOSE f \in SelectFile(fileId) : TRUE).file_name]

\* POST /api/code/files/:fileId/download
Download(fileId, branch) ==
    LET commit == LatestCommit(fileId, BranchOrMain(branch))
    IN IF SelectFile(fileId) = {} \/ commit = <<>>
       THEN [status |-> 404, content |-> "", filename |-> ""]
       ELSE [status |-> 200, content |-> commit[1].content,
             filename |-> (CHOOSE f \in SelectFile(fileId) : TRUE).file_name]

Next ==
    \/ Tick
    \/ CreateFile
    \/ SaveDraft
    \/ Publish
    \/ Revert
    \/ DeleteFile

Spec == Init /\ [][Next]_vars

(* ------------------------------ observers ------------------------------- *)
\* wss.on("connection", ws => clients.add(ws)): nothing is sent to the socket.
Connect(o) ==
    /\ clients[o] = "absent"
    /\ clients' = [clients EXCEPT ![o] = "open"]
    /\ UNCHANGED <<code_files, code_commits, fileSeq, commitSeq, clock, build,
                   last, inbox, handler, ui>>

\* The socket leaves readyState OPEN (closing handshake or a dropped
\* connection) before its "close" event is dispatched.
StartClosing(o) ==
    /\ clients[o] = "open"
    /\ clients' = [clients EXCEPT ![o] = "closing"]
    /\ UNCHANGED <<code_files, code_commits, fileSeq, commitSeq, clock, build,
                   last, inbox, handler, ui>>

\* ws.on("close", () => clients.delete(ws))
Close(o) ==
    /\ clients[o] = "closing"
    /\ clients' = [clients EXCEPT ![o] = "absent"]
    /\ UNCHANGED <<code_files, code_commits, fileSeq, commitSeq, clock, build,
                   last, inbox, handler, ui>>

\* One request body per endpoint.
SomeTeam == CHOOSE t \in Teams : TRUE
SomeAuthor == CHOOSE a \in Authors : TRUE
SomeName == CHOOSE n \in Names : TRUE
SomePath == CHOOSE p \in Paths : TRUE
SomeLanguage == CHOOSE l \in Languages : TRUE
SomeContent == CHOOSE c \in Contents : c # ""
SomeRandom == CHOOSE r \in RandomSuffixes : TRUE

\* The code endpoints driven with one request body each, together with
\* observers coming and going.
NextNotify ==
    \/ Tick
    \/ \E r \in IncompleteRequests : CreateFileRejected(r[1], r[2], r[3], r[4])
    \/ CreateFileReplaceFails(SomeTeam, SomeName, SomePath, SomeAuthor)
    \/ CreateFileOk(SomeTeam, SomeName, SomePath, SomeLanguage,
                    SomeContent, SomeAuthor)
    \/ \E fileId \in 1..MaxFiles : SaveDraftFails(fileId)
    \/ \E fileId \in 1..MaxFiles : SaveDraftOk(fileId, SomeContent, SomeAuthor)
    \/ \E fileId \in 1..MaxFiles : PublishNotFound(fileId)
    \/ \E fileId \in 1..MaxFiles, message \in Messages :
          PublishOk(fileId, message, SomeAuthor, SomeRandom)
    \/ \E commitId \in 1..MaxCommits : RevertNotFound(commitId)
    \/ \E commitId \in 1..MaxCommits :
          RevertOk(commitId, "main", SomeAuthor, SomeRandom)
    \/ \E fileId \in 1..MaxFiles : DeleteFileOf(fileId)
    \/ \E o \in Observers : Connect(o)
    \/ \E o \in Observers : StartClosing(o)
    \/ \E o \in Observers : Close(o)

SpecNotify == Init /\ [][NextNotify]_vars

(* ------------------------ successful requests --------------------------- *)
\* The behaviours in which every request is served without an error.
NextSuccessful ==
    \/ Tick
    \/ \E team \in Teams, name \in Names, path \in Paths, lang \in Languages,
          content \in Contents, author \in Authors :
          CreateFileOk(team, name, path, lang, content, author)
    \/ \E fileId \in 1..MaxFiles, content \in Contents, author \in Authors :
          SaveDraftOk(fileId, content, author)
    \/ \E fileId \in 1..MaxFiles, message \in Messages, author \in Authors,
          rnd \in RandomSuffixes :
          PublishOk(fileId, message, author, rnd)
    \/ \E commitId \in 1..MaxCommits, r \in RevertRequests, rnd \in RandomSuffixes :
          RevertOk(commitId, r[1], r[2], rnd)
    \/ \E fileId \in 1..MaxFiles : DeleteFileOf(fileId)

SpecSuccessful == Init /\ [][NextSuccessful]_vars

(* --------------------------- several files ------------------------------ *)
\* The code endpoints driven by one team that keeps files at two paths.
TeamPaths == {"p", "q"}

NextList ==
    \/ Tick
    \/ \E r \in IncompleteRequests : CreateFileRejected(r[1], r[2], r[3], r[4])
    \/ \E path \in TeamPaths :
          CreateFileReplaceFails(SomeTeam, SomeName, path, SomeAuthor)
    \/ \E path \in TeamPaths :
          CreateFileOk(SomeTeam, SomeName, path, SomeLanguage, SomeContent,
                       SomeAuthor)
    \/ \E fileId \in 1..MaxFiles : SaveDraftFails(fileId)
    \/ \E fileId \in 1..MaxFiles : SaveDraftOk(fileId, SomeContent, SomeAuthor)
    \/ \E fileId \in 1..MaxFiles : PublishNotFound(fileId)
    \/ \E fileId \in 1..MaxFiles :
          PublishOk(fileId, "", SomeAuthor, SomeRandom)
    \/ \E commitId \in 1..MaxCommits : RevertNotFound(commitId)
    \/ \E commitId \in 1..MaxCommits, r \in RevertRequests :
          RevertOk(commitId, r[1], r[2], SomeRandom)
    \/ \E fileId \in 1..MaxFiles : DeleteFileOf(fileId)

SpecList == Init /\ [][NextList]_vars
(* ----------------------- statement by statement ------------------------ *)
\* publish and revert taken one statement at a time, in the order the
\* handler's body runs them after its reads.

\* A variant of Statements that notifies before it writes.
StatementsBroadcastFirst(op) == <<"broadcast", "insert", "update", "respond">>

\* db.prepare(INSERT).run(...); db.prepare(UPDATE).run(...); broadcast(...);
\* res.json(...)
Statements(op) == <<"insert", "update", "broadcast", "respond">>

\* A variant of EventLoopFree for handlers that yield between statements.
EventLoopAlwaysFree == TRUE

\* The handlers' bodies contain no await and every statement of the store is
\* synchronous: the event loop dispatches the next callback only when the
\* running handler has returned.
EventLoopFree == handler.pos = 0

At(statement) ==
    /\ handler.pos > 0
    /\ Statements(handler.op)[handler.pos] = statement

\* publish: the file lookup and the read of the latest draft.
PublishRead(fileId, message, author, rnd) ==
    /\ handler.pos = 0
    /\ PublishStatus(fileId) = 200
    /\ commitSeq < MaxCommits
    /\ LET file == CHOOSE f \in SelectFile(fileId) : TRUE
           draft == LatestCommit(fileId, "drafts")
           now == clock
           hash == RandomHash(now, rnd)
       IN handler' = [NoHandler EXCEPT
              !.op = "publish", !.pos = 1, !.fileId = fileId,
              !.team = file.team_id, !.branch = "main", !.author = author,
              !.message = message, !.stored = CommitMessage(message),
              !.content = ContentOrEmpty(draft), !.hash = hash, !.now = now,
              !.event = CodeCommitEvent(fileId, file.team_id, message, hash, now)]
    /\ UNCHANGED <<code_files, code_commits, fileSeq, commitSeq, clock, build,
                   last, sockets, ui>>

\* revert: the lookups of the source commit and of its file.
RevertRead(commitId, branch, author, rnd) ==
    /\ handler.pos = 0
    /\ RevertStatus(commitId) = 200
    /\ commitSeq < MaxCommits
    /\ LET commit == CHOOSE c \in SelectCommit(commitId) : TRUE
           file == CHOOSE f \in SelectFile(commit.file_id) : TRUE
           now == clock
           hash == RandomHash(now, rnd)
       IN handler' = [NoHandler EXCEPT
              !.op = "revert", !.pos = 1, !.fileId = file.id,
              !.team = file.team_id, !.commitId = commitId, !.branch = branch,
              !.author = author, !.stored = RevertMessage(commit.hash),
              !.content = commit.content, !.hash = hash, !.now = now,
              !.event = CodeRevertEvent(file.id, file.team_id, branch, hash, now)]
    /\ UNCHANGED <<code_files, code_commits, fileSeq, commitSeq, clock, build,
                   last, sockets, ui>>

\* INSERT INTO code_commits: the statement throws when the build enforces the
\* foreign key and the file row is gone; the catch block answers 500.
StepInsert ==
    /\ At("insert")
    /\ IF foreign_keys /\ SelectFile(handler.fileId) = {}
       THEN /\ handler' = NoHandler
            /\ last' = [Response(handler.op, 500) EXCEPT
                          !.fileId = handler.fileId, !.commitId = handler.commitId,
                          !.branch = handler.branch]
            /\ UNCHANGED <<code_commits, commitSeq, ui>>
       ELSE /\ code_commits' = InsertCommit(code_commits,
                   CommitRow(commitSeq + 1, handler.team, handler.fileId,
                             handler.branch, handler.author, handler.stored,
                             handler.content, handler.hash, handler.now))
            /\ commitSeq' = commitSeq + 1
            /\ handler' = [handler EXCEPT !.pos = @ + 1, !.newId = commitSeq + 1]
            /\ UNCHANGED last
    /\ UNCHANGED <<code_files, fileSeq, clock, build, sockets, ui>>

\* UPDATE code_files SET updated_at = ? WHERE id = ?
StepUpdate ==
    /\ At("update")
    /\ code_files' = UpdateUpdatedAt(code_files, handler.fileId, handler.now)
    /\ handler' = [handler EXCEPT !.pos = @ + 1]
    /\ UNCHANGED <<code_commits, fileSeq, commitSeq, clock, build, last, sockets, ui>>

\* broadcast({ type, file_id, team_id, ..., hash, timestamp })
StepBroadcast ==
    /\ At("broadcast")
    /\ inbox' = Broadcast(handler.newId, handler.event)
    /\ handler' = [handler EXCEPT !.pos = @ + 1]
    /\ UNCHANGED <<code_files, code_commits, fileSeq, commitSeq, clock, build,
                   last, clients, ui>>

\* res.json({ success: true, hash })
StepRespond ==
    /\ At("respond")
    /\ last' = [Response(handler.op, 200) EXCEPT
                  !.fileId = handler.fileId, !.commitId = handler.commitId,
                  !.branch = IF handler.op = "revert" THEN handler.branch ELSE "",
                  !.message = handler.message, !.hash = handler.hash,
                  !.newId = handler.newId, !.event = handler.event]
    /\ handler' = NoHandler
    /\ UNCHANGED <<code_files, code_commits, fileSeq, commitSeq, clock, build,
                   sockets, ui>>

\* The callbacks the event loop dispatches between handlers.
DeleteFileStep(fileId) == EventLoopFree /\ DeleteFileOf(fileId)
SomeObserver == CHOOSE o \in Observers : TRUE

NextSteps ==
    \/ Tick
    \/ \E fileId \in 1..MaxFiles, message \in Messages :
          PublishRead(fileId, message, SomeAuthor, SomeRandom)
    \/ \E commitId \in 1..MaxCommits, r \in RevertRequests :
          RevertRead(commitId, r[1], r[2], SomeRandom)
    \/ StepInsert
    \/ StepUpdate
    \/ StepBroadcast
    \/ StepRespond
    \/ EventLoopFree /\ CreateFileOk(SomeTeam, SomeName, SomePath, SomeLanguage,
                                      SomeContent, SomeAuthor)
    \/ \E fileId \in 1..MaxFiles :
          EventLoopFree /\ SaveDraftOk(fileId, SomeContent, SomeAuthor)
    \/ \E fileId \in 1..MaxFiles : DeleteFileStep(fileId)
    \/ EventLoopFree /\ Connect(SomeObserver)
    \/ EventLoopFree /\ StartClosing(SomeObserver)
    \/ EventLoopFree /\ Close(SomeObserver)

SpecSteps == Init /\ [][NextSteps]_vars

(* ------------------------- the editor's actions ------------------------- *)
\* One CodeView component, signed in as SomeAuthor, and the server it talks
\* to.  The component's requests travel in client.requests: a request is
\* served by the server's handler, then its response is delivered to the
\* component, which runs the continuation after the await.

\* useEffect(..., [unsavedChanges, code]): when one of the two changed in a
\* render, the cleanup clears the running timer and the effect starts a new
\* one unless nothing is unsaved, no file is selected or the branch is not
\* drafts.  The timer's callback closes over the render's `code`.
AutoSaveTimer(before, after) ==
    IF before.unsavedChanges = after.unsavedChanges /\ before.code = after.code
    THEN before.timer
    ELSE IF \/ ~ after.unsavedChanges
            \/ after.selectedFile = 0
            \/ after.currentBranch # "drafts"
         THEN NoTimer
         ELSE [armed |-> TRUE, code |-> after.code]

\* A render of the component with its new state, followed by its effects.
Render(after) == [after EXCEPT !.timer = AutoSaveTimer(editor, after)]

\* const canCommit = useMemo(...)
CanCommit ==
    /\ editor.fileContentObj.loaded
    /\ editor.fileContentObj.drafts # editor.fileContentObj.main
    /\ editor.fileContentObj.drafts # ""

\* A request in flight; `site` is the place in the component that sent it.
Request(site, kind, content, branch) ==
    [site |-> site, kind |-> kind, phase |-> "request",
     content |-> content, branch |-> branch, drafts |-> "", main |-> ""]

\* loadFileContent(), called by the render in which currentBranch = branch.
LoadFileContent(site, branch) == Request(site, "content", "", branch)

Answered(r) == [r EXCEPT !.phase = "response"]

RequestsOf(kind, phase) ==
    {r \in client.requests : r.kind = kind /\ r.phase = phase}

\* handleCreateFile: createCodeFile(team, name, path, language, '', user.id),
\* served by POST /api/code/files; then setSelectedFile(newFile), setCode(''),
\* setCurrentBranch('drafts'), and the two effects that depend on
\* selectedFile each call loadFileContent().
HandleCreateFile ==
    /\ editor.selectedFile = 0
    /\ fileSeq = 0
    /\ CreateFileStatus(SomeTeam, SomeName, SomePath, SomeAuthor) = 200
    /\ LET now == clock
           fileId == fileSeq + 1
           commitId == commitSeq + 1
       IN /\ code_files' = (code_files \ Conflicting(SomeTeam, SomePath)) \cup
                 {FileRow(fileId, SomeTeam, SomeName, SomePath, SomeLanguage,
                          SomeAuthor, now)}
          /\ fileSeq' = fileId
          /\ code_commits' = InsertCommit(CommitsKeptByReplace(SomeTeam, SomePath),
                 CommitRow(commitId, SomeTeam, fileId, "drafts", SomeAuthor,
                           CreatedMessage(SomeName), "", DraftHash(now), now))
          /\ commitSeq' = commitId
          /\ editor' = Render([editor EXCEPT !.selectedFile = fileId,
                                             !.code = "",
                                             !.currentBranch = "drafts",
                                             !.loading = TRUE])
          /\ client' = [client EXCEPT
                 !.requests = @ \cup {LoadFileContent("selectedFile", "drafts"),
                                      LoadFileContent("currentBranch", "drafts")}]
    /\ UNCHANGED <<clock, build, last, sockets, handler>>

\* <Editor onChange={(value) => { setCode(value || ''); if (currentBranch ===
\* 'drafts') { setUnsavedChanges(true); setAutoSaveStatus('unsaved') } }} />
\* The user types once the file's content has arrived and while the commit
\* modal does not cover the editor.
Edit(text) ==
    /\ editor.selectedFile # 0
    /\ ~ editor.showCommitModal
    /\ \A r \in client.requests : r.kind # "content"
    /\ text # editor.code
    /\ client.edits < MaxEdits
    /\ LET drafts == editor.currentBranch = "drafts"
       IN /\ editor' = Render([editor EXCEPT
                 !.code = text,
                 !.unsavedChanges = IF drafts THEN TRUE ELSE @,
                 !.autoSaveStatus = IF drafts THEN "unsaved" ELSE @])
          /\ client' = [client EXCEPT
                 !.edits = @ + 1,
                 !.pendingEdit = IF drafts THEN TRUE ELSE @]
    /\ UNCHANGED <<code_files, code_commits, fileSeq, commitSeq, clock, build,
                   last, sockets, handler>>

\* setTimeout(() => autoSave(), 3000) fires: setAutoSaveStatus('saving') and
\* saveDraft(selectedFile.id, code, currentUser.id) with the `code` of the
\* render that started the timer.
TimerFires ==
    /\ editor.timer.armed
    /\ editor' = [editor EXCEPT !.timer = NoTimer, !.autoSaveStatus = "saving"]
    /\ client' = [client EXCEPT
           !.requests = @ \cup
               {Request("autoSave", "draft", editor.timer.code, "drafts")},
           !.pendingEdit = IF editor.timer.code = editor.code THEN FALSE ELSE @]
    /\ UNCHANGED <<code_files, code_commits, fileSeq, commitSeq, clock, build,
                   last, sockets, handler>>

\* The Commit button of the toolbar: rendered on drafts,
\* disabled={loading || !(unsavedChanges || canCommit)}.
OpenCommitModal ==
    /\ editor.selectedFile # 0
    /\ editor.currentBranch = "drafts"
    /\ ~ editor.showCommitModal
    /\ ~ editor.loading
    /\ editor.unsavedChanges \/ CanCommit
    /\ editor' = [editor EXCEPT !.showCommitModal = TRUE]
    /\ UNCHANGED <<code_files, code_commits, fileSeq, commitSeq, clock, build,
                   last, sockets, handler, client>>

\* The Cancel button of the commit modal.
CancelCommit ==
    /\ editor.showCommitModal
    /\ editor' = [editor EXCEPT !.showCommitModal = FALSE]
    /\ UNCHANGED <<code_files, code_commits, fileSeq, commitSeq, clock, build,
                   last, sockets, handler, client>>

\* handleCommit up to its first await: setLocalLoading(true) and
\* commitToMain(selectedFile.id, commitMessage, currentUser.id).  The request
\* carries no content.  The user confirms one commit at a time.
HandleCommit ==
    /\ editor.showCommitModal
    /\ ~ editor.loading
    /\ \A r \in client.requests : r.kind # "commit"
    /\ editor' = [editor EXCEPT !.loading = TRUE]
    /\ client' = [client EXCEPT
           !.requests = @ \cup
               {Request("handleCommit", "commit", "", editor.currentBranch)},
           !.confirmed = editor.code]
    /\ UNCHANGED <<code_files, code_commits, fileSeq, commitSeq, clock, build,
                   last, sockets, handler>>

\* POST /api/code/files/:fileId/draft serves a request of the component.
ServeDraft(r) ==
    /\ r \in RequestsOf("draft", "request")
    /\ SaveDraftStatus(editor.selectedFile) = 200
    /\ LET fileId == editor.selectedFile
           now == clock
           commitId == commitSeq + 1
       IN /\ code_commits' = InsertCommit(code_commits,
                 CommitRow(commitId, TeamOfFile(fileId), fileId, "drafts",
                           SomeAuthor, AutoSaveMessage, r.content,
                           DraftHash(now), now))
          /\ commitSeq' = commitId
          /\ code_files' = UpdateUpdatedAt(code_files, fileId, now)
    /\ client' = [client EXCEPT !.requests = (@ \ {r}) \cup {Answered(r)}]
    /\ UNCHANGED <<fileSeq, clock, build, last, sockets, handler, editor>>

\* POST /api/code/files/:fileId/commit serves a request of the component; no
\* observer is connected, so the broadcast reaches no inbox.
ServeCommit(r) ==
    /\ r \in RequestsOf("commit", "request")
    /\ PublishStatus(editor.selectedFile) = 200
    /\ LET fileId == editor.selectedFile
           file == CHOOSE f \in SelectFile(fileId) : TRUE
           draft == LatestCommit(fileId, "drafts")
           now == clock
           commitId == commitSeq + 1
       IN /\ code_commits' = InsertCommit(code_commits,
                 CommitRow(commitId, file.team_id, fileId, "main", SomeAuthor,
                           CommitMessage("msg"), ContentOrEmpty(draft),
                           RandomHash(now, SomeRandom), now))
          /\ commitSeq' = commitId
          /\ code_files' = UpdateUpdatedAt(code_files, fileId, now)
    /\ client' = [client EXCEPT !.requests = (@ \ {r}) \cup {Answered(r)}]
    /\ UNCHANGED <<fileSeq, clock, build, last, sockets, handler, editor>>

\* GET /api/code/files/:fileId/content serves a request of the component.
ServeContent(r) ==
    /\ r \in RequestsOf("content", "request")
    /\ LET bundle == GetContentBundle(editor.selectedFile)
       IN /\ bundle.status = 200
          /\ client' = [client EXCEPT
                 !.requests = (@ \ {r}) \cup
                     {[Answered(r) EXCEPT !.drafts = bundle.drafts,
                                          !.main = bundle.main]}]
    /\ UNCHANGED <<code_files, code_commits, fileSeq, commitSeq, clock, build,
                   last, sockets, handler, editor>>

\* autoSave after its await: setUnsavedChanges(false);
\* setAutoSaveStatus('saved').
DeliverDraft(r) ==
    /\ r \in RequestsOf("draft", "response")
    /\ editor' = Render([editor EXCEPT !.unsavedChanges = FALSE,
                                       !.autoSaveStatus = "saved"])
    /\ client' = [client EXCEPT !.requests = @ \ {r}, !.synced = r.content]
    /\ UNCHANGED <<code_files, code_commits, fileSeq, commitSeq, clock, build,
                   last, sockets, handler>>

\* handleCommit after commitToMain: setCommitMessage(''),
\* setShowCommitModal(false), loadHistory(), setCurrentBranch('main') and
\* loadFileContent() of the render in which Commit was clicked; the change of
\* currentBranch runs the effect that calls loadFileContent() once more.
DeliverCommit(r) ==
    /\ r \in RequestsOf("commit", "response")
    /\ editor' = Render([editor EXCEPT !.showCommitModal = FALSE,
                                       !.currentBranch = "main",
                                       !.loading = TRUE])
    /\ client' = [client EXCEPT
           !.requests = (@ \ {r}) \cup
               IF editor.currentBranch = "main"
               THEN {LoadFileContent("handleCommit", r.branch)}
               ELSE {LoadFileContent("handleCommit", r.branch),
                     LoadFileContent("currentBranch", "main")},
           !.published = TRUE]
    /\ UNCHANGED <<code_files, code_commits, fileSeq, commitSeq, clock, build,
                   last, sockets, handler>>

\* loadFileContent after its await: setFileContentObj(content),
\* setCode(branch content), setUnsavedChanges(false),
\* setAutoSaveStatus('saved'), and setLocalLoading(false) in finally.
DeliverContent(r) ==
    /\ r \in RequestsOf("content", "response")
    /\ editor' = Render([editor EXCEPT
           !.fileContentObj = [loaded |-> TRUE, drafts |-> r.drafts,
                               main |-> r.main],
           !.code = IF r.branch = "drafts" THEN r.drafts ELSE r.main,
           !.unsavedChanges = FALSE,
           !.autoSaveStatus = "saved",
           !.loading = FALSE])
    /\ client' = [client EXCEPT !.requests = @ \ {r}, !.synced = r.drafts]
    /\ UNCHANGED <<code_files, code_commits, fileSeq, commitSeq, clock, build,
                   last, sockets, handler>>

Serve ==
    \E r \in client.requests : ServeDraft(r) \/ ServeCommit(r) \/ ServeContent(r)

Deliver ==
    \E r \in client.requests :
        DeliverDraft(r) \/ DeliverCommit(r) \/ DeliverContent(r)

NextEditor ==
    \/ Tick
    \/ HandleCreateFile
    \/ \E text \in Texts : Edit(text)
    \/ TimerFires
    \/ OpenCommitModal
    \/ CancelCommit
    \/ HandleCommit
    \/ \E r \in client.requests : ServeDraft(r)
    \/ \E r \in client.requests : ServeCommit(r)
    \/ \E r \in client.requests : ServeContent(r)
    \/ \E r \in client.requests : DeliverDraft(r)
    \/ \E r \in client.requests : DeliverCommit(r)
    \/ \E r \in client.requests : DeliverContent(r)

\* The timer fires 3 seconds after it was started unless it is cleared; the
\* server answers every request it receives and the response reaches the
\* component.
SpecEditor ==
    /\ Init
    /\ [][NextEditor]_vars
    /\ WF_vars(TimerFires)
    /\ WF_vars(Serve)
    /\ WF_vars(Deliver)

(* ======================== properties of the engine ====================== *)
FileIds == 1..MaxFiles

\* A request changed the store in this step (requests answered with an error
\* before any write, and clock ticks, leave `last` as it was).
Served(op) == last' # last /\ last'.op = op

\* The commits of a set with the latest created_at, and their contents: the
\* empty string stands for "no commit" where the handler substitutes it.
Latest(rows) == {c \in rows : \A d \in rows : d.created_at <= c.created_at}
HeadContents(fileId, branch) ==
    IF CommitsOf(fileId, branch) = {} THEN {""}
    ELSE {c.content : c \in Latest(CommitsOf(fileId, branch))}

CommitById(id) == CHOOSE c \in code_commits : c.id = id

\* C1 -- append-only history: the number of commits of a (file, branch) pair
\* never decreases, except by deleteFile of that file.
C1_AppendOnlyHistory ==
    [][\A f \in FileIds, b \in BranchNames :
          Cardinality(CommitsOf(f, b)') < Cardinality(CommitsOf(f, b))
              => Served("deleteFile") /\ last'.fileId = f]_vars

\* A revert has been served on a branch that now holds several commits.
C1_Witness ==
    /\ last.op = "revert"
    /\ Cardinality(CommitsOf(last.fileId, last.branch)) >= 2

\* C2 -- commits are immutable: every row of code_commits is still there,
\* with every column unchanged, after any step other than deleteFile of its
\* file; createFile, saveDraft, publish and revert only add rows.
C2_CommitsImmutable ==
    [][/\ \A c \in code_commits :
            c \in code_commits' \/ (Served("deleteFile") /\ last'.fileId = c.file_id)
       /\ \A c, d \in code_commits' : c.id = d.id => c = d]_vars

\* A publish has been served while older commits of the file exist.
C2_Witness ==
    /\ last.op = "publish"
    /\ \E c \in CommitsOfFile(last.fileId) : c.id < last.newId

\* C3 -- round trip: saveDraft(file, X) followed at once by publish(file)
\* makes main_content of getContentBundle(file) equal X.
C3_RoundTrip ==
    [][(last.op = "saveDraft" /\ Served("publish") /\ last'.fileId = last.fileId)
          => \A f \in FileIds :
                f = last.fileId => GetContentBundle(f)'.main = last.content]_vars

\* C4 -- revert is a forward commit: a served revert(C, B) adds exactly one
\* row, on branch B of C's file and with C's content; getHistory(file, B)
\* grows by one with the new commit first; every older row stays as it was.
C4_RevertForwardCommit ==
    [][\A f \in FileIds, b \in BranchNames :
          (Served("revert") /\ last'.fileId = f /\ last'.branch = b) =>
             /\ code_commits \subseteq code_commits'
             /\ \E src \in code_commits, n \in code_commits' :
                   /\ src.id = last'.commitId
                   /\ code_commits' \ code_commits = {n}
                   /\ n.id = last'.newId /\ n.branch = b
                   /\ n.file_id = src.file_id /\ n.content = src.content
             /\ Len(GetHistory(f, b)') = Len(GetHistory(f, b)) + 1
             /\ GetHistory(f, b)'[1].id = last'.newId]_vars

\* C5 -- branch resolution: wherever (file, branch) has commits, the content
\* bundle, download, the first history entry and the draft copied by publish
\* all come from a commit of that pair with the latest created_at.
C5_BranchResolution ==
    /\ \A f \in FileIds, b \in BranchNames :
          CommitsOf(f, b) # {} =>
             /\ GetHistory(f, b)[1] \in Latest(CommitsOf(f, b))
             /\ Download(f, b).status = 200
                   => Download(f, b).content \in HeadContents(f, b)
    /\ \A f \in FileIds :
          GetContentBundle(f).status = 200 =>
             /\ GetContentBundle(f).drafts \in HeadContents(f, "drafts")
             /\ GetContentBundle(f).main \in HeadContents(f, "main")
    /\ last.op = "publish" =>
          CommitById(last.newId).content \in HeadContents(last.fileId, "drafts")

\* A publish has been served on a file whose drafts were saved at different
\* times with different contents.
C5_Witness ==
    /\ last.op = "publish"
    /\ \E c, d \in CommitsOf(last.fileId, "drafts") :
          c.created_at < d.created_at /\ c.content # d.content

C7_NoDeduplication ==
    [][/\ \A f \in FileIds, b \in {"drafts", "main"} :
            (/\ last'.fileId = f
             /\ \/ Served("saveDraft") /\ b = "drafts"
                \/ Served("publish") /\ b = "main") =>
               /\ \A c \in code_commits : c.id # last'.newId
               /\ \E n \in code_commits' :
                     /\ n.id = last'.newId /\ n.file_id = f /\ n.branch = b
                     /\ code_commits' = code_commits \cup {n}
               /\ Len(GetHistory(f, b)') = Len(GetHistory(f, b)) + 1
       /\ (last.op = "publish" /\ Served("publish") /\ last'.fileId = last.fileId) =>
            /\ last'.newId # last.newId
            /\ \E n \in code_commits' :
                  /\ n.id = last'.newId
                  /\ n.content = CommitById(last.newId).content]_vars

\* A saveDraft has been served whose content an earlier auto-save of the same
\* file already carries.
C7_Witness ==
    /\ last.op = "saveDraft"
    /\ \E c \in CommitsOf(last.fileId, "drafts") :
          /\ c.id # last.newId
          /\ c.message = AutoSaveMessage
          /\ c.content = last.content

\* C8 -- deleteFile(file) removes the registry row and all commits of the
\* file, and nothing else; getContentBundle(file) then answers 404.
C8_DeleteFile ==
    [][\A f \in FileIds :
          (Served("deleteFile") /\ last'.fileId = f) =>
             /\ code_files' = {r \in code_files : r.id # f}
             /\ code_commits' = {c \in code_commits : c.file_id # f}
             /\ GetContentBundle(f)'.status = 404]_vars

\* A file with commits has been deleted while another file and its commits
\* remain.
C8_Witness ==
    /\ last.op = "deleteFile"
    /\ last.fileId <= fileSeq
    /\ \E r \in code_files : CommitsOfFile(r.id) # {}

\* C9 -- download answers 404 when the file has no commit on the branch and
\* never substitutes empty content; once the branch of an existing file has a
\* commit it returns the head content and the file's name.
C9_Download ==
    \A f \in FileIds, b \in BranchNames \cup {""} :
        /\ CommitsOf(f, BranchOrMain(b)) = {} => Download(f, b).status = 404
        /\ (SelectFile(f) # {} /\ CommitsOf(f, BranchOrMain(b)) # {}) =>
              /\ Download(f, b).status = 200
              /\ Download(f, b).content \in HeadContents(f, BranchOrMain(b))
              /\ \E r \in SelectFile(f) : Download(f, b).filename = r.file_name

\* A file has drafts but was never published: download of main answers 404
\* while download of drafts returns content.
C9_Witness ==
    \E f \in FileIds :
        /\ SelectFile(f) # {}
        /\ CommitsOf(f, "drafts") # {}
        /\ CommitsOf(f, "main") = {}
        /\ Download(f, "").status = 404
        /\ Download(f, "drafts").status = 200

\* C10 -- publishing an existing file without any drafts commit succeeds and
\* adds a main commit with empty content.
C10_PublishWithoutDraft ==
    /\ \A f \in FileIds :
          (SelectFile(f) # {} /\ CommitsOf(f, "drafts") = {}) => PublishStatus(f) = 200
    /\ (last.op = "publish" /\ CommitsOf(last.fileId, "drafts") = {}) =>
          /\ last.status = 200
          /\ CommitById(last.newId).branch = "main"
          /\ CommitById(last.newId).content = ""

\* A publish has been served on a file that has no drafts commit.
C10_Witness ==
    /\ last.op = "publish"
    /\ SelectFile(last.fileId) # {}
    /\ CommitsOf(last.fileId, "drafts") = {}

\* C11 -- re-creating a file at an existing (team_id, path) is served, leaves
\* exactly one registry row for the path, keeps every commit of the old file in
\* the history of the file id that createFile returns, and adds exactly one
\* drafts commit.
C11_RecreateKeepsHistory ==
    [][/\ \A team \in Teams, path \in Paths :
            Conflicting(team, path) # {} =>
                \A name \in Names, author \in Authors :
                    CreateFileStatus(team, name, path, author) = 200
       /\ \A old \in code_files, n \in FileIds :
            (/\ Served("createFile") /\ last'.status = 200 /\ last'.fileId = n
             /\ old.team_id = last'.team
             /\ \E new \in code_files' : new.id = n /\ new.file_path = old.file_path)
            => /\ Cardinality({f \in code_files' : f.team_id = old.team_id
                                  /\ f.file_path = old.file_path}) = 1
               /\ CommitsOfFile(old.id) \subseteq CommitsOfFile(n)'
               /\ Cardinality(CommitsOfFile(n)')
                     = Cardinality(CommitsOfFile(old.id)) + 1
               /\ Cardinality(CommitsOf(n, "drafts")')
                     = Cardinality(CommitsOf(old.id, "drafts")) + 1]_vars

\* C12 -- two auto-saves of one file served one after the other (in either
\* order, any time apart): the second is served like the first, both rows are
\* stored with the content each request carried, the drafts history grows by
\* one per request, and when the two timestamps differ the drafts head is the
\* row of the later one.
C12_ConcurrentAutoSaves ==
    [][\A f \in FileIds :
          (/\ last.op = "saveDraft" /\ last.fileId = f
           /\ Served("saveDraft") /\ last'.fileId = f) =>
             /\ SaveDraftStatus(f) = 200
             /\ Cardinality(CommitsOf(f, "drafts")')
                   = Cardinality(CommitsOf(f, "drafts")) + 1
             /\ \E a \in CommitsOf(f, "drafts"), b \in CommitsOf(f, "drafts")' :
                   /\ a.id = last.newId /\ b.id = last'.newId /\ a.id # b.id
                   /\ a \in code_commits'
                   /\ a.content = last.content /\ b.content = last'.content
                   /\ a.created_at < b.created_at =>
                         /\ GetHistory(f, "drafts")'[1] = b
                         /\ SelectFile(f) # {} =>
                               GetContentBundle(f)'.drafts = b.content]_vars

\* Two auto-saves of a file were served one after the other, a millisecond
\* apart and with different contents.
C12_Witness ==
    /\ last.op = "saveDraft"
    /\ \E a, b \in CommitsOf(last.fileId, "drafts") :
          /\ b.id = last.newId /\ a.id + 1 = b.id
          /\ a.message = AutoSaveMessage /\ b.message = AutoSaveMessage
          /\ a.created_at < b.created_at
          /\ a.content # b.content

\* C13 -- a served publish adds exactly one row, on main of its file, with the
\* supplied message (the default when none was supplied) and a hash generated
\* in this request; it calls broadcast once with the file id, team id, hash and
\* timestamp of that row, and answers with the same hash.
C13_PublishNotifies ==
    [][\A f \in FileIds :
          (Served("publish") /\ last'.fileId = f) =>
             /\ inbox' = Broadcast(last'.newId, last'.event)
             /\ \E n \in code_commits' :
                   /\ n \notin code_commits
                   /\ code_commits' = code_commits \cup {n}
                   /\ n.id = last'.newId /\ n.file_id = f /\ n.branch = "main"
                   /\ n.message = CommitMessage(last'.message)
                   /\ \E rnd \in RandomSuffixes :
                         n.hash = RandomHash(n.created_at, rnd)
                   /\ last'.event.type = "code_commit"
                   /\ last'.event.file_id = n.file_id
                   /\ last'.event.team_id = n.team_id
                   /\ last'.event.hash = n.hash
                   /\ last'.event.timestamp = n.created_at
                   /\ last'.status = 200 /\ last'.hash = n.hash]_vars

\* A publish without a message has been served on a file of the second team,
\* later than the file's creation.
C13_Witness ==
    /\ last.op = "publish" /\ last.message = ""
    /\ last.event.team_id = 2
    /\ last.event.timestamp > 0
    /\ CommitById(last.newId).message = CommitMessage("")

\* C14 -- revert of a commit id that does not exist, or of a commit whose file
\* row does not exist, is answered 404: the only step the handler can take is
\* RevertNotFound, which leaves the commits, every updated_at and the
\* observers' inboxes as they were; RevertOk, the step that inserts, updates
\* and broadcasts, is not enabled.
C14_RevertNotFound ==
    \A c \in 1..MaxCommits :
        (\/ SelectCommit(c) = {}
         \/ \E r \in SelectCommit(c) : SelectFile(r.file_id) = {}) =>
           /\ RevertStatus(c) = 404
           /\ ENABLED RevertNotFound(c)
           /\ \A r \in RevertRequests, rnd \in RandomSuffixes :
                 ~ENABLED RevertOk(c, r[1], r[2], rnd)

\* The store holds a commit whose file row does not exist, next to a file with
\* commits of its own, and room for another commit.
C14_Witness ==
    /\ commitSeq < MaxCommits
    /\ \E c \in code_commits : SelectFile(c.file_id) = {} /\ RevertStatus(c.id) = 404
    /\ \E c \in code_commits : SelectFile(c.file_id) # {} /\ RevertStatus(c.id) = 200

\* C15 -- createFile with team id, file name, path or author id missing is
\* answered 400 whatever the store holds (also where the same request with
\* all fields would fail in the store); the only step the handler can take
\* leaves the registry, the commits and the observers' inboxes unchanged, and
\* no step that writes is enabled.
C15_CreateFileRejected ==
    \A r \in IncompleteRequests :
        /\ CreateFileStatus(r[1], r[2], r[3], r[4]) = 400
        /\ ENABLED CreateFileRejected(r[1], r[2], r[3], r[4])
        /\ ~ENABLED CreateFileReplaceFails(r[1], r[2], r[3], r[4])
        /\ \A lang \in Languages :
              /\ ~ENABLED CreateFileCommitInsertFails(r[1], r[2], r[3], lang, r[4])
              /\ \A content \in Contents :
                    ~ENABLED CreateFileOk(r[1], r[2], r[3], lang, content, r[4])

\* The path of the incomplete requests is taken by a file with commits, and
\* there is room for another file and another commit.
C15_Witness ==
    /\ fileSeq < MaxFiles /\ commitSeq < MaxCommits
    /\ \E r \in IncompleteRequests :
          /\ r[1] # 0 /\ r[3] # ""
          /\ \E f \in Conflicting(r[1], r[3]) : CommitsOfFile(f.id) # {}
          /\ ReplaceViolatesForeignKey(r[1], r[3])

\* C16 -- a served saveDraft, publish or revert on an existing file sets the
\* file's updated_at to the created_at of the row it added and leaves the
\* other registry rows alone; listFiles(team) returns every file of the team
\* once, in non-increasing updated_at order, so the file just touched is first
\* unless another file of the team carries the same updated_at.
C16_UpdatedAtOrdersListing ==
    [][/\ \A f \in FileIds :
            (/\ Served("saveDraft") \/ Served("publish") \/ Served("revert")
             /\ last'.fileId = f /\ SelectFile(f) # {}) =>
               \E r \in code_files', n \in code_commits' :
                  /\ r.id = f /\ n.id = last'.newId /\ n \notin code_commits
                  /\ r.updated_at = n.created_at
                  /\ \A g \in code_files : g.id # f => g \in code_files'
                  /\ (\A g \in code_files' :
                         (g.team_id = r.team_id /\ g.id # f)
                             => g.updated_at < r.updated_at)
                        => ListFiles(r.team_id)'[1] = f
       /\ \A team \in Teams :
            /\ {ListFiles(team)'[i] : i \in DOMAIN ListFiles(team)'}
                  = {g.id : g \in {h \in code_files' : h.team_id = team}}
            /\ Len(ListFiles(team)')
                  = Cardinality({h \in code_files' : h.team_id = team})
            /\ \A i, j \in DOMAIN ListFiles(team)' :
                  i < j => \E g, h \in code_files' :
                              /\ g.id = ListFiles(team)'[i]
                              /\ h.id = ListFiles(team)'[j]
                              /\ g.updated_at >= h.updated_at]_vars

\* C16 as stated -- a served saveDraft, publish or revert on an existing file
\* sets the file's updated_at to the created_at of the row it added, and the
\* file is then the first entry of listFiles(team).
C16_TouchedFileListedFirst ==
    [][\A f \in FileIds :
          (/\ Served("saveDraft") \/ Served("publish") \/ Served("revert")
           /\ last'.fileId = f /\ SelectFile(f) # {}) =>
             \E r \in code_files', n \in code_commits' :
                /\ r.id = f /\ n.id = last'.newId
                /\ r.updated_at = n.created_at
                /\ ListFiles(r.team_id)'[1] = f]_vars

\* A team has two files; the one created first was saved later than the other
\* was last touched and is listed first.
C16_Witness ==
    /\ last.op = "saveDraft"
    /\ \E f, g \in code_files :
          /\ f.team_id = g.team_id /\ f.id < g.id /\ f.id = last.fileId
          /\ f.updated_at > g.updated_at
          /\ ListFiles(f.team_id) = <<f.id, g.id>>

C18_AtMostOnceNoReplay ==
    [][\A o \in Observers :
          /\ \A i, j \in DOMAIN inbox'[o] :
                i # j => inbox'[o][i].emission # inbox'[o][j].emission
          /\ clients[o] # "open" => inbox'[o] = inbox[o]
          /\ inbox'[o] # inbox[o] =>
                /\ Served("publish") \/ Served("revert")
                /\ last'.newId > commitSeq
                /\ inbox'[o] = Append(inbox[o], [emission |-> last'.newId,
                                                 data |-> last'.event])]_vars

\* One observer has received two emissions; another, connected in between,
\* holds only the second.
C18_Witness ==
    \E o, p \in Observers :
        /\ Len(inbox[o]) = 2 /\ Len(inbox[p]) = 1
        /\ inbox[p][1] = inbox[o][2]
        /\ clients[p] = "open"

\* C19 -- in every reachable state the branch of every stored commit is
\* "drafts" or "main".
C19_OnlyTwoBranches ==
    \A c \in code_commits : c.branch \in {"drafts", "main"}

\* C20 -- a served createFile or saveDraft adds rows on drafts only and leaves
\* the main commits and the main head of every file as they were; a served
\* publish leaves the drafts commits and the drafts head of every file as they
\* were; main gains a row only by publish of the file or by revert with target
\* main (and loses rows only when the file is deleted).
C20_MainOnlyByPublishOrRevert ==
    [][\A f \in FileIds :
          /\ (Served("createFile") \/ Served("saveDraft")) =>
                /\ \A n \in code_commits' \ code_commits : n.branch = "drafts"
                /\ CommitsOf(f, "main")' = CommitsOf(f, "main")
                /\ LatestCommit(f, "main")' = LatestCommit(f, "main")
          /\ Served("publish") =>
                /\ \A n \in code_commits' \ code_commits : n.branch = "main"
                /\ CommitsOf(f, "drafts")' = CommitsOf(f, "drafts")
                /\ LatestCommit(f, "drafts")' = LatestCommit(f, "drafts")
          /\ CommitsOf(f, "main")' # CommitsOf(f, "main") =>
                \/ Served("publish") /\ last'.fileId = f
                \/ Served("revert") /\ last'.fileId = f /\ last'.branch = "main"
                \/ /\ Served("deleteFile") /\ last'.fileId = f
                   /\ CommitsOf(f, "main")' = {}]_vars

\* An auto-save has been served on a file that has a main commit and an
\* earlier draft.
C20_Witness ==
    /\ last.op = "saveDraft"
    /\ CommitsOf(last.fileId, "main") # {}
    /\ \E c \in CommitsOf(last.fileId, "drafts") : c.id < last.newId

\* C21 -- head resolution follows insertion order: for every (file, branch)
\* with commits, the head every reader resolves is the row appended last on
\* the pair (the one with the greatest id), also among rows of equal
\* created_at.
C21_HeadIsLastAppended ==
    \A f \in FileIds, b \in BranchNames :
        CommitsOf(f, b) # {} =>
            /\ \A c \in CommitsOf(f, b) : c.id <= LatestCommit(f, b)[1].id
            /\ \A c \in CommitsOf(f, b) : c.id <= GetHistory(f, b)[1].id

C26_EveryFileHasADraft ==
    /\ \A f \in code_files : CommitsOf(f.id, "drafts") # {}
    /\ last.op = "publish" =>
          \E d \in CommitsOf(last.fileId, "drafts") :
              /\ d.id < last.newId
              /\ d \in Latest(CommitsOf(last.fileId, "drafts"))
              /\ d.content = CommitById(last.newId).content

\* A publish has been served on the second file created, after the first was
\* replaced or deleted, and the content it copied is not empty.
C26_Witness ==
    /\ last.op = "publish"
    /\ last.fileId = 2
    /\ SelectFile(1) = {}
    /\ CommitById(last.newId).content # ""

\* C27 -- the message of the notification a publish broadcasts is the message
\* stored in the main commit the publish adds, with or without a message in
\* the request.
C27_NotifiedMessageIsStored ==
    [][\A f \in FileIds :
          (Served("publish") /\ last'.fileId = f) =>
             \E n \in code_commits' :
                /\ n.id = last'.newId
                /\ last'.event.message = MessageText(n.message)]_vars

\* The handler in progress has done its reads and has not yet run its INSERT.
BetweenReadAndAppend == handler.pos > 0 /\ At("insert")

\* C22 -- publish and revert run their reads and their append in one
\* callback of the event loop: from the reads to the response the file the
\* handler read exists, deleteFile of that file cannot be dispatched, and the
\* commit the handler appends is owned by a row of code_files at the moment
\* it is appended.
C22_DeleteCannotInterleave ==
    /\ handler.pos > 0 =>
          /\ SelectFile(handler.fileId) # {}
          /\ ~ ENABLED DeleteFileStep(handler.fileId)
    /\ (handler.pos > 0 /\ ~ At("insert")) =>
          \E c \in code_commits :
             /\ c.id = handler.newId /\ c.hash = handler.hash
             /\ SelectFile(c.file_id) # {}

\* C22 as stated: between the reads of a publish or a revert and its append,
\* deleteFile of the file can be executed.
C22_DeleteBetweenReadAndAppend ==
    BetweenReadAndAppend => ENABLED DeleteFileStep(handler.fileId)

\* A revert has done its lookups and stands before its INSERT, while the file
\* it read has a commit on main.
C22_Witness ==
    /\ BetweenReadAndAppend
    /\ handler.op = "revert"
    /\ CommitsOf(handler.fileId, "main") # {}

\* C23 -- in publish and revert the notification is sent after the INSERT of
\* the commit and the UPDATE of updated_at: at the moment an observer's inbox
\* grows, the history of the notified file on the notified branch holds the
\* commit with the notified hash and the file's updated_at is the notified
\* timestamp.
C23_NotifyAfterWrites ==
    [][\A o \in Observers :
          inbox'[o] # inbox[o] =>
             LET e == inbox'[o][Len(inbox'[o])].data
                 history == GetHistory(e.file_id, e.branch)
             IN /\ \E i \in 1..Len(history) :
                      /\ history[i].hash = e.hash
                      /\ history[i].created_at = e.timestamp
                /\ \E f \in SelectFile(e.file_id) : f.updated_at = e.timestamp
                /\ code_commits' = code_commits
                /\ code_files' = code_files]_vars

\* An observer has received the notification of a revert onto drafts, sent
\* later than the file's creation, and the handler stands before its response.
C23_Witness ==
    /\ handler.pos > 0 /\ At("respond")
    /\ handler.op = "revert" /\ handler.branch = "drafts"
    /\ handler.now > 0
    /\ \E o \in Observers :
          /\ Len(inbox[o]) > 0
          /\ inbox[o][Len(inbox[o])].data = handler.event

\* C25 -- a request that is answered with an error leaves code_files and
\* code_commits as they were, and every row of code_files has a commit on
\* drafts.
C25_NoPartialEffect ==
    [][/\ (last' # last /\ last'.status >= 400) =>
             /\ code_files' = code_files
             /\ code_commits' = code_commits
       /\ \A f \in code_files' : \E c \in code_commits' :
             c.file_id = f.id /\ c.branch = "drafts"]_vars

(* ======================== properties of the editor ====================== *)
\* C28 -- an edit made on the drafts branch is eventually sent: while the
\* component stays on drafts, an edit that no saveDraft request has carried
\* yet leads to a saveDraft request that carries the editor's content.
C28_EditsEventuallySent ==
    (client.pendingEdit /\ editor.currentBranch = "drafts")
        ~> (~ client.pendingEdit \/ editor.currentBranch # "drafts")

\* C29 -- on the drafts branch, when the indicator shows "All changes saved"
\* and no saveDraft request is in flight, the editor's content is the content
\* of the last draft the component saved or loaded.
C29_SavedIndicatorIsTruthful ==
    (/\ editor.selectedFile # 0
     /\ editor.currentBranch = "drafts"
     /\ editor.autoSaveStatus = "saved"
     /\ \A r \in client.requests : r.kind # "draft")
        => editor.code = client.synced

\* C30 -- when a confirmed Commit succeeds, the head of main holds the content
\* the editor showed when Commit was confirmed, and the reloads that follow
\* do not replace content the editor still held as unsaved.
C30_CommitPublishesEditorContent ==
    [][/\ (client'.published /\ ~ client.published) =>
             ContentOrEmpty(LatestCommit(editor.selectedFile, "main"))
                 = client.confirmed
       /\ (/\ client.published
           /\ editor.unsavedChanges
           /\ \E r \in RequestsOf("content", "response") :
                 r \notin client'.requests)
             => editor'.code = editor.code]_vars

=============================================================================
